---- MODULE Spec2Model ----
(***************************************************************************)
(* Convida: Conway's Game of Life on a torus (src/src/lib.rs).             *)
(*                                                                         *)
(* The state is one Universe (width, height, cells) owned by a host that   *)
(* calls its exported methods one at a time.  Every method is one action.  *)
(* A Rust panic (an out-of-bounds index, a remainder by zero, an integer   *)
(* overflow in a build with overflow checks) aborts the program: status    *)
(* becomes "panicked" and what the method had already written stays.       *)
(*                                                                         *)
(* Cells are the u8 values of the enum: Dead = 0, Alive = 1.  The cell     *)
(* buffer is a sequence, so the Rust index i is position i + 1.            *)
(*                                                                         *)
(* All dimensions are small here, so the u32 products and sums of the      *)
(* code stay far below 2^32.  The one u32 operation that can leave the     *)
(* range is the subtraction width - 13 in pulsar: see pulsar.              *)
(***************************************************************************)
EXTENDS Integers, Sequences, FiniteSets

VARIABLES
    width,      \* Universe.width
    height,     \* Universe.height
    cells,      \* Universe.cells
    status,     \* "ok", or "panicked" once a method has panicked
    checked,    \* the build: TRUE when integer overflow panics (debug profile)
    ret,        \* what the last call returned: << >>, or << the Universe >> of set_size
    op,         \* the last call: [name, args]
    pre,        \* the Universe as it was when the last call started
    gen,        \* the number of ticks since the last call that was not a tick
    gen0        \* the cells when that run of ticks started

vars == <<width, height, cells, status, checked, ret, op, pre, gen, gen0>>

----------------------------------------------------------------------------
(* Bounds of the model. *)

\* Widths and heights are in 0..MaxDim; row and column arguments too, so
\* that an argument can be out of range of every grid.
MaxDim == 2

\* new() builds a 128 x 128 grid; the model builds NewDim x NewDim.
NewDim == 2

\* set_cells takes lists of at most MaxList pairs.
MaxList == 2

\* js_sys::Math::random draws: the model draws one of MaxSeed + 1 fills.
MaxSeed == 3

\* At most MaxGen ticks in a row.
MaxGen == 4

\* The grids of the tick rule have sides in 1..MaxRuleDim.
MaxRuleDim == 3

\* The grids of the pulsar have sides in 13..13 + MaxSlack.
MaxSlack == 2

\* The grids of the blinker and of the block have sides up to MaxLifeDim.
MaxLifeDim == 6

----------------------------------------------------------------------------
(* enum Cell *)

Dead == 0

Alive == 1

Cell == {Dead, Alive}

\* Cell::toggle
toggle(cell) == IF cell = Dead THEN Alive ELSE Dead

Universe(w, h, cs) == [width |-> w, height |-> h, cells |-> cs]

\* The receiver of the next call.
Self == Universe(width, height, cells)

\* What a method leaves: the receiver's fields and whether it returned.
Outcome(u, ok) == [width |-> u.width, height |-> u.height, cells |-> u.cells, ok |-> ok]

\* (0..n).map(|_| Cell::Dead).collect()
dead_cells(n) == [i \in 1..n |-> Dead]

----------------------------------------------------------------------------
(* Indexing *)

\* A flattened index that strides by the height.
get_index_by_height(u, row, col) == row * u.height + col

\* Universe::get_index
get_index(u, row, col) == row * u.width + col

\* Whether self.cells[idx] is inside the buffer (otherwise the index panics).
in_bounds(u, idx) == idx < Len(u.cells)

\* Writes that toggle the cell at each index instead of setting it Alive.
RECURSIVE stamp_toggling(_, _, _)
stamp_toggling(u, idxs, k) ==
    IF k > Len(idxs) THEN Outcome(u, TRUE)
    ELSE IF ~in_bounds(u, idxs[k]) THEN Outcome(u, FALSE)
    ELSE stamp_toggling([u EXCEPT !.cells[idxs[k] + 1] = 1 - @], idxs, k + 1)

\* The writes self.cells[idx] = Cell::Alive for the indices of idxs, in
\* order from position k: the first index outside the buffer panics and
\* leaves the earlier writes in place.
RECURSIVE stamp(_, _, _)
stamp(u, idxs, k) ==
    IF k > Len(idxs) THEN Outcome(u, TRUE)
    ELSE IF ~in_bounds(u, idxs[k]) THEN Outcome(u, FALSE)
    ELSE stamp([u EXCEPT !.cells[idxs[k] + 1] = Alive], idxs, k + 1)

----------------------------------------------------------------------------
(* Universe::tick *)

\* A neighbour count that stops at the edges of the grid: a neighbour
\* beyond an edge is the cell at the edge.
live_neighbor_count_clamped(u, row, col) ==
    LET north == IF row = 0 THEN 0 ELSE row - 1
        south == IF row = u.height - 1 THEN row ELSE row + 1
        west  == IF col = 0 THEN 0 ELSE col - 1
        east  == IF col = u.width - 1 THEN col ELSE col + 1
        idxs  == << get_index(u, north, west), get_index(u, north, col),
                    get_index(u, north, east), get_index(u, row, west),
                    get_index(u, row, east),   get_index(u, south, west),
                    get_index(u, south, col),  get_index(u, south, east) >>
        ok    == \A k \in 1..8 : in_bounds(u, idxs[k])
        at(k) == u.cells[idxs[k] + 1]
    IN  [ok |-> ok,
         count |-> IF ok
                   THEN at(1) + at(2) + at(3) + at(4) + at(5) + at(6) + at(7) + at(8)
                   ELSE 0]

\* A neighbour count that compares col with the width for the east wrap:
\* the east neighbour of the last column is then the cell after the row.
live_neighbor_count_east_spill(u, row, col) ==
    LET north == IF row = 0 THEN u.height - 1 ELSE row - 1
        south == IF row = u.height - 1 THEN 0 ELSE row + 1
        west  == IF col = 0 THEN u.width - 1 ELSE col - 1
        east  == IF col = u.width THEN 0 ELSE col + 1
        idxs  == << get_index(u, north, west), get_index(u, north, col),
                    get_index(u, north, east), get_index(u, row, west),
                    get_index(u, row, east),   get_index(u, south, west),
                    get_index(u, south, col),  get_index(u, south, east) >>
        ok    == \A k \in 1..8 : in_bounds(u, idxs[k])
        at(k) == u.cells[idxs[k] + 1]
    IN  [ok |-> ok,
         count |-> IF ok
                   THEN at(1) + at(2) + at(3) + at(4) + at(5) + at(6) + at(7) + at(8)
                   ELSE 0]

\* Universe::live_neighbor_count: the eight lookups, in the order of the
\* code.  ok is FALSE when one of them indexes outside the buffer.
\* The method is private and tick calls it inside its two loops, with
\* row < height and col < width: height - 1 and width - 1 are then u32
\* subtractions from at least 1.
live_neighbor_count(u, row, col) ==
    LET north == IF row = 0 THEN u.height - 1 ELSE row - 1
        south == IF row = u.height - 1 THEN 0 ELSE row + 1
        west  == IF col = 0 THEN u.width - 1 ELSE col - 1
        east  == IF col = u.width - 1 THEN 0 ELSE col + 1
        idxs  == << get_index(u, north, west), get_index(u, north, col),
                    get_index(u, north, east), get_index(u, row, west),
                    get_index(u, row, east),   get_index(u, south, west),
                    get_index(u, south, col),  get_index(u, south, east) >>
        ok    == \A k \in 1..8 : in_bounds(u, idxs[k])
        at(k) == u.cells[idxs[k] + 1]
    IN  [ok |-> ok,
         count |-> IF ok
                   THEN at(1) + at(2) + at(3) + at(4) + at(5) + at(6) + at(7) + at(8)
                   ELSE 0]

\* A rule table where a dead cell with no live neighbour is born too.
next_cell_b0(cell, live_neighbors) ==
    IF cell = Alive /\ live_neighbors < 2 THEN Dead
    ELSE IF cell = Alive /\ live_neighbors \in {2, 3} THEN Alive
    ELSE IF cell = Alive /\ live_neighbors > 3 THEN Dead
    ELSE IF cell = Dead /\ live_neighbors \in {0, 3} THEN Alive
    ELSE cell

\* A rule table where a live cell with three live neighbours dies.
next_cell_s2(cell, live_neighbors) ==
    IF cell = Alive /\ live_neighbors < 2 THEN Dead
    ELSE IF cell = Alive /\ live_neighbors = 2 THEN Alive
    ELSE IF cell = Alive /\ live_neighbors > 2 THEN Dead
    ELSE IF cell = Dead /\ live_neighbors = 3 THEN Alive
    ELSE cell

\* A rule table where a dead cell with two live neighbours is born too.
next_cell_b2(cell, live_neighbors) ==
    IF cell = Alive /\ live_neighbors < 2 THEN Dead
    ELSE IF cell = Alive /\ live_neighbors \in {2, 3} THEN Alive
    ELSE IF cell = Alive /\ live_neighbors > 3 THEN Dead
    ELSE IF cell = Dead /\ live_neighbors \in {2, 3} THEN Alive
    ELSE cell

\* The match of tick: the first arm that matches decides.
next_cell(cell, live_neighbors) ==
    IF cell = Alive /\ live_neighbors < 2 THEN Dead
    ELSE IF cell = Alive /\ live_neighbors \in {2, 3} THEN Alive
    ELSE IF cell = Alive /\ live_neighbors > 3 THEN Dead
    ELSE IF cell = Dead /\ live_neighbors = 3 THEN Alive
    ELSE cell

\* An inner loop that reads cell and neighbours from the buffer being
\* written, where the rows above are already those of the next generation.
tick_row_in_place(u, next, row) ==
    LET v    == [u EXCEPT !.cells = next]
        cols == 0..(v.width - 1)
        ok   == \A col \in cols :
                    /\ in_bounds(v, get_index(v, row, col))
                    /\ live_neighbor_count(v, row, col).ok
        first == get_index(v, row, 0)
    IN  [ok |-> ok,
         cells |-> IF ~ok THEN next
                   ELSE [i \in 1..Len(next) |->
                            IF i - 1 >= first /\ i - 1 < first + v.width
                            THEN next_cell(v.cells[i],
                                           live_neighbor_count(v, row, i - 1 - first).count)
                            ELSE next[i]]]

\* The inner loop of tick over the columns of one row: u is self (read
\* only), next the clone being written.  ok is FALSE when an index of the
\* row, or of a neighbour lookup, is outside the buffer.
tick_row(u, next, row) ==
    LET cols == 0..(u.width - 1)
        ok   == \A col \in cols :
                    /\ in_bounds(u, get_index(u, row, col))
                    /\ live_neighbor_count(u, row, col).ok
        first == get_index(u, row, 0)
    IN  [ok |-> ok,
         cells |-> IF ~ok THEN next
                   ELSE [i \in 1..Len(next) |->
                            IF i - 1 >= first /\ i - 1 < first + u.width
                            THEN next_cell(u.cells[i],
                                           live_neighbor_count(u, row, i - 1 - first).count)
                            ELSE next[i]]]

\* The outer loop of tick from row on.
RECURSIVE tick_loop(_, _, _)
tick_loop(u, next, row) ==
    IF row >= u.height THEN [cells |-> next, ok |-> TRUE]
    ELSE LET r == tick_row(u, next, row)
         IN  IF ~r.ok THEN [cells |-> next, ok |-> FALSE]
             ELSE tick_loop(u, r.cells, row + 1)

\* A tick that computes self.height - 1 and self.width - 1 once, before its
\* loops: on a grid without rows or without columns the u32 subtraction
\* underflows, and what follows in either build ends in a panic.
tick_hoisted(u) ==
    LET r == tick_loop(u, u.cells, 0)
    IN  IF u.width = 0 \/ u.height = 0 THEN Outcome(u, FALSE)
        ELSE IF r.ok THEN Outcome([u EXCEPT !.cells = r.cells], TRUE)
        ELSE Outcome(u, FALSE)

\* Universe::tick: self.cells = next only when the loops ran to their end.
tick(u) ==
    LET r == tick_loop(u, u.cells, 0)
    IN  IF r.ok THEN Outcome([u EXCEPT !.cells = r.cells], TRUE)
        ELSE Outcome(u, FALSE)

----------------------------------------------------------------------------
(* Seeding generators *)

\* Whether the i-th draw of js_sys::Math::random() is below 0.5.  The draws
\* are an input: seed names one of the sequences of draws of the model.
draw_below_half(seed, i) == (seed \div (2 ^ (i % 3))) % 2 = 1

\* fn default
default(size) ==
    [i \in 1..size |-> IF (i - 1) % 2 = 0 \/ (i - 1) % 7 = 0 THEN Alive ELSE Dead]

\* fn glider: the five direct writes; one outside the vector panics.
glider_cells(size, w) ==
    stamp(Universe(w, 0, dead_cells(size)),
          << 1 + w * 0, 2 + w * 1, 0 + w * 2, 1 + w * 2, 2 + w * 2 >>, 1)

\* fn random
random(size, seed) ==
    [i \in 1..size |-> IF draw_below_half(seed, i - 1) THEN Alive ELSE Dead]

\* fn create_cells
create_cells(cell_type, size, w, seed) ==
    CASE cell_type = "default" -> [cells |-> default(size), ok |-> TRUE]
      [] cell_type = "glider"  -> LET g == glider_cells(size, w)
                                  IN  [cells |-> g.cells, ok |-> g.ok]
      [] cell_type = "random"  -> [cells |-> random(size, seed), ok |-> TRUE]
      [] OTHER                 -> [cells |-> << >>, ok |-> FALSE]

----------------------------------------------------------------------------
(* Construction and sizing *)

\* Universe::new, at NewDim x NewDim for the code's 128 x 128.
new(seed) ==
    Universe(NewDim, NewDim, create_cells("random", NewDim * NewDim, NewDim, seed).cells)

\* Universe::set_size: the Universe it returns.
set_size_result(w, h, seed) ==
    Universe(w, h, create_cells("random", w * h, w, seed).cells)

\* A set_size that also gives the receiver a buffer of the new size.
set_size_resizing(u, w, h) == Outcome(Universe(w, h, dead_cells(w * h)), TRUE)

\* Universe::set_size: what it leaves of the receiver.
set_size(u, w, h) == Outcome([u EXCEPT !.width = w, !.height = h], TRUE)

\* A set_width that sizes the buffer before it stores the width.
set_width_stale(u, w) == Outcome(Universe(w, u.height, dead_cells(u.width * u.height)), TRUE)

\* Universe::set_width
set_width(u, w) == Outcome(Universe(w, u.height, dead_cells(w * u.height)), TRUE)

\* Universe::set_height
set_height(u, h) == Outcome(Universe(u.width, h, dead_cells(u.width * h)), TRUE)

\* A reset that starts over from the Universe of new().
reset_as_new(u, seed) == Outcome(new(seed), TRUE)

\* Universe::reset
reset(u, seed) ==
    Outcome([u EXCEPT !.cells = create_cells("random", u.width * u.height, u.width, seed).cells],
            TRUE)

\* Universe::clear
clear(u) == Outcome([u EXCEPT !.cells = dead_cells(u.width * u.height)], TRUE)

----------------------------------------------------------------------------
(* Direct cell mutation *)

\* Universe::toggle_cell
toggle_cell(u, row, col) ==
    LET idx == get_index(u, row, col)
    IN  IF in_bounds(u, idx)
        THEN Outcome([u EXCEPT !.cells[idx + 1] = toggle(@)], TRUE)
        ELSE Outcome(u, FALSE)

\* Universe::set_cells
set_cells(u, list) ==
    stamp(u, [k \in 1..Len(list) |-> get_index(u, list[k][1], list[k][2])], 1)

----------------------------------------------------------------------------
(* Text rendering *)

\* The symbol of a Dead cell, U+25FB.
DeadGlyph == "U+25FB"

\* The symbol of an Alive cell, U+25FC.
AliveGlyph == "U+25FC"

Newline == "\n"

\* The symbol fmt writes for a cell.
symbol(cell) == IF cell = Dead THEN DeadGlyph ELSE AliveGlyph

\* The loop of fmt over the chunks of cs from position from on: a chunk is
\* the next size cells, or the cells that are left when they are fewer;
\* each is written as its symbols and a newline.
RECURSIVE fmt_chunks(_, _, _)
fmt_chunks(cs, size, from) ==
    IF from > Len(cs) THEN << >>
    ELSE LET to   == IF from + size - 1 > Len(cs) THEN Len(cs) ELSE from + size - 1
             line == [k \in 1..(to - from + 1) |-> symbol(cs[from + k - 1])]
         IN  line \o << Newline >> \o fmt_chunks(cs, size, to + 1)

\* Display::fmt: the text written, as the sequence of its characters.
\* chunks(0) panics, whatever the slice.
fmt(u) ==
    IF u.width = 0 THEN [ok |-> FALSE, text |-> << >>]
    ELSE [ok |-> TRUE, text |-> fmt_chunks(u.cells, u.width, 1)]

\* Universe::render: self.to_string()
render(u) == fmt(u)

----------------------------------------------------------------------------
(* Pattern stamping *)

\* A glider that wraps the row and the column of each cell on its own axis.
glider_per_axis(u, row, col) ==
    LET limit == u.width * u.height
        at(dr, dc) == ((row + dr) % u.height) * u.width + ((col + dc) % u.width)
    IN  IF limit = 0 THEN Outcome(u, FALSE)
        ELSE stamp(u, << at(0, 1), at(1, 2), at(2, 0), at(2, 1), at(2, 2) >>, 1)

\* Universe::glider.  The remainder by limit = 0 panics before any write.
glider(u, row, col) ==
    LET limit == u.width * u.height
    IN  IF limit = 0 THEN Outcome(u, FALSE)
        ELSE stamp(u,
                   << (1 + col + u.width * (0 + row)) % limit,
                      (2 + col + u.width * (1 + row)) % limit,
                      (0 + col + u.width * (2 + row)) % limit,
                      (1 + col + u.width * (2 + row)) % limit,
                      (2 + col + u.width * (2 + row)) % limit >>, 1)

pulsar_width == 13

pulsar_height == 13

top == {2, 3, 4, 8, 9, 10}

side == {0, 5, 7, 12}

\* Universe::cells_from_pattern: for i in min..max, the cells whose offset
\* i - min is in arr.  The remainder by limit = 0 panics at the first of them.
cells_from_pattern(u, arr, min, max, row_translate, col_translate, limit) ==
    LET hit(i) == (i - min) \in arr
        is     == SelectSeq([k \in 1..(max - min) |-> min + k - 1], hit)
    IN  IF is = << >> THEN Outcome(u, TRUE)
        ELSE IF limit = 0 THEN Outcome(u, FALSE)
        ELSE stamp(u,
                   [k \in 1..Len(is) |-> (is[k] + row_translate + col_translate) % limit],
                   1)

\* The match on idx in pulsar.
pulsar_pattern(idx) ==
    IF idx \in {0, 5, 7, 12} THEN top
    ELSE IF idx \in {1, 6, 11} THEN {}
    ELSE side

\* A col_translate that steps a whole grid row per pattern row.
pulsar_col_translate_full_row(u, col, idx) == col + (idx * u.width)

\* col_translate of pulsar: i already advances by pulsar_width per pattern
\* row, so each row adds the rest of the grid row.
pulsar_col_translate(u, col, idx) == col + (idx * (u.width - pulsar_width))

\* The while loop of Universe::pulsar from row idx of the pattern on.
\* self.width - pulsar_width is a u32 subtraction: with width < 13 it panics
\* in a build with overflow checks (chk) and wraps modulo 2^32 in a build
\* without.  The wrapped col_translate only enters the wrapping sum
\* i + row_translate + col_translate, which is (row + idx) * width + col +
\* (i - min) modulo 2^32, a value in 0..2^31: the sum over the integers,
\* taken here, is that value.
RECURSIVE pulsar_loop(_, _, _, _, _)
pulsar_loop(u, row, col, idx, chk) ==
    IF idx >= pulsar_height THEN Outcome(u, TRUE)
    ELSE IF chk /\ u.width < pulsar_width THEN Outcome(u, FALSE)
    ELSE LET start == idx * pulsar_width
             end   == start + pulsar_width
             limit == u.width * u.height
             row_translate == row * u.width
             col_translate == pulsar_col_translate(u, col, idx)
             r == cells_from_pattern(u, pulsar_pattern(idx), start, end,
                                     row_translate, col_translate, limit)
         IN  IF ~r.ok THEN r
             ELSE pulsar_loop(Universe(r.width, r.height, r.cells), row, col, idx + 1, chk)

\* Universe::pulsar
pulsar(u, row, col, chk) == pulsar_loop(u, row, col, 0, chk)

----------------------------------------------------------------------------
(* The calls of the host *)

Coord == 0..MaxDim

Pairs == Coord \X Coord

Lists == UNION {[1..n -> Pairs] : n \in 0..MaxList}

Seeds == 0..MaxSeed

\* A call that is not a tick: result is what the method leaves, r what it
\* returns.
Call(name, args, result, r) ==
    /\ status = "ok"
    /\ \E out \in {result} :
           /\ width' = out.width
           /\ height' = out.height
           /\ cells' = out.cells
           /\ status' = IF out.ok THEN "ok" ELSE "panicked"
           /\ gen0' = out.cells
    /\ ret' = r
    /\ op' = [name |-> name, args |-> args]
    /\ pre' = Self
    /\ gen' = 0
    /\ UNCHANGED checked

Tick ==
    /\ status = "ok"
    /\ gen < MaxGen
    /\ \E out \in {tick(Self)} :
           /\ width' = out.width
           /\ height' = out.height
           /\ cells' = out.cells
           /\ status' = IF out.ok THEN "ok" ELSE "panicked"
    /\ ret' = << >>
    /\ op' = [name |-> "tick", args |-> << >>]
    /\ pre' = Self
    /\ gen' = gen + 1
    /\ UNCHANGED <<gen0, checked>>

SetSize ==
    \E w \in Coord, h \in Coord, seed \in Seeds :
        Call("set_size", <<w, h>>, set_size(Self, w, h), << set_size_result(w, h, seed) >>)

SetWidth == \E w \in Coord : Call("set_width", <<w>>, set_width(Self, w), << >>)

SetHeight == \E h \in Coord : Call("set_height", <<h>>, set_height(Self, h), << >>)

ToggleCell ==
    \E row \in Coord, col \in Coord :
        Call("toggle_cell", <<row, col>>, toggle_cell(Self, row, col), << >>)

Reset == \E seed \in Seeds : Call("reset", << >>, reset(Self, seed), << >>)

Clear == Call("clear", << >>, clear(Self), << >>)

Glider ==
    \E row \in Coord, col \in Coord :
        Call("glider", <<row, col>>, glider(Self, row, col), << >>)

Pulsar ==
    \E row \in Coord, col \in Coord :
        Call("pulsar", <<row, col>>, pulsar(Self, row, col, checked), << >>)

SetCells == \E list \in Lists : Call("set_cells", list, set_cells(Self, list), << >>)

\* render reads the Universe and returns the text; a panic returns nothing.
Render ==
    \E r \in {render(Self)} :
        Call("render", << >>, Outcome(Self, r.ok), IF r.ok THEN << r.text >> ELSE << >>)

\* The state a constructor or a drawn start leaves, in one of the builds.
\* The build matters to pulsar alone: a specification without pulsar
\* takes one build.
Start(u, name, builds) ==
    /\ width = u.width
    /\ height = u.height
    /\ cells = u.cells
    /\ status = "ok"
    /\ checked \in builds
    /\ ret = << >>
    /\ op = [name |-> name, args |-> << >>]
    /\ pre = u
    /\ gen = 0
    /\ gen0 = u.cells

\* Whether no method has been called yet.
FirstCall == gen = 0 /\ op.name \in {"new", "start"}

----------------------------------------------------------------------------
(* The program: a Universe from new(), then any calls. *)

Init == \E seed \in Seeds : Start(new(seed), "new", BOOLEAN)

Next ==
    \/ Tick
    \/ SetSize
    \/ SetWidth
    \/ SetHeight
    \/ ToggleCell
    \/ Reset
    \/ Clear
    \/ Glider
    \/ Pulsar
    \/ SetCells
    \/ Render

Spec == Init /\ [][Next]_vars

----------------------------------------------------------------------------
(* One call on any Universe the program can hold. *)

\* Whether the buffer of u holds width * height cells.
WellFormed(u) == Len(u.cells) = u.width * u.height

\* The cell (row, col) of u, for a cell inside the buffer.
CellAt(u, row, col) == u.cells[row * u.width + col + 1]

\* The w x h grid whose Alive cells are those of the set alive of <<row, col>>.
Grid(w, h, alive) ==
    Universe(w, h, [i \in 1..(w * h) |->
                       IF <<(i - 1) \div w, (i - 1) % w>> \in alive THEN Alive ELSE Dead])

\* The Universes with sides in 0..MaxDim that new() and calls lead to:
\* set_width(a), set_height(b) and toggle_cell give any a x b content, and
\* set_size(w, h) then stores w and h over it.
InitCall ==
    \E w \in Coord, h \in Coord, a \in Coord, b \in Coord :
        \E cs \in [1..(a * b) -> Cell] : Start(Universe(w, h, cs), "start", {FALSE})

NextCall ==
    \/ FirstCall /\ Tick
    \/ FirstCall /\ SetSize
    \/ FirstCall /\ SetWidth
    \/ FirstCall /\ SetHeight
    \/ FirstCall /\ ToggleCell
    \/ FirstCall /\ Reset
    \/ FirstCall /\ Clear
    \/ FirstCall /\ Glider
    \/ FirstCall /\ Render

SpecCall == InitCall /\ [][NextCall]_vars

----------------------------------------------------------------------------
(* One tick of any grid with sides in 1..MaxRuleDim. *)

InitRule ==
    \E w \in 1..MaxRuleDim, h \in 1..MaxRuleDim :
        \E cs \in [1..(w * h) -> Cell] : Start(Universe(w, h, cs), "start", {FALSE})

NextRule == FirstCall /\ Tick

SpecRule == InitRule /\ [][NextRule]_vars

----------------------------------------------------------------------------
(* One pulsar on an all-Dead grid with sides in 13..13 + MaxSlack. *)

InitPulsar ==
    \E w \in pulsar_width..(pulsar_width + MaxSlack),
       h \in pulsar_height..(pulsar_height + MaxSlack) :
        Start(Universe(w, h, dead_cells(w * h)), "start", BOOLEAN)

NextPulsar == FirstCall /\ Pulsar

SpecPulsar == InitPulsar /\ [][NextPulsar]_vars

----------------------------------------------------------------------------
(* Ticks of the glider seed, of a blinker and of a block. *)

\* (row, col) moved by (dr, dc) on the torus of u.
Torus(u, row, col, dr, dc) ==
    <<(row + dr + u.height) % u.height, (col + dc + u.width) % u.width>>

\* The horizontal blinker centred on (row, col).
HBlinker(w, h, row, col) ==
    LET u == Universe(w, h, << >>)
    IN  Grid(w, h, {Torus(u, row, col, 0, -1), <<row, col>>, Torus(u, row, col, 0, 1)})

\* The vertical blinker centred on (row, col).
VBlinker(w, h, row, col) ==
    LET u == Universe(w, h, << >>)
    IN  Grid(w, h, {Torus(u, row, col, -1, 0), <<row, col>>, Torus(u, row, col, 1, 0)})

\* The 2 x 2 block whose top left cell is (row, col).
Block(w, h, row, col) ==
    LET u == Universe(w, h, << >>)
    IN  Grid(w, h, {<<row, col>>, Torus(u, row, col, 0, 1),
                    Torus(u, row, col, 1, 0), Torus(u, row, col, 1, 1)})

\* create_cells("glider", 64, 8) as an 8 x 8 Universe.
GliderSeed == Universe(8, 8, create_cells("glider", 64, 8, 0).cells)

InitLife ==
    \/ Start(GliderSeed, "start", {FALSE})
    \/ \E w \in 5..MaxLifeDim, h \in 5..MaxLifeDim :
           \E row \in 0..(h - 1), col \in 0..(w - 1) :
               Start(HBlinker(w, h, row, col), "start", {FALSE})
    \/ \E w \in 4..MaxLifeDim, h \in 4..MaxLifeDim :
           \E row \in 0..(h - 1), col \in 0..(w - 1) :
               Start(Block(w, h, row, col), "start", {FALSE})

NextLife == Tick

SpecLife == InitLife /\ [][NextLife]_vars

----------------------------------------------------------------------------
(* One call of any method on a Universe with sides in 0..MaxDim, in either *)
(* build.                                                                  *)

\* The Universes are those of InitCall, with the fills of random.
InitFrame ==
    \E w \in Coord, h \in Coord, a \in Coord, b \in Coord, seed \in Seeds :
        Start(Universe(w, h, random(a * b, seed)), "start", BOOLEAN)

NextFrame ==
    \/ FirstCall /\ Tick
    \/ FirstCall /\ SetSize
    \/ FirstCall /\ SetWidth
    \/ FirstCall /\ SetHeight
    \/ FirstCall /\ ToggleCell
    \/ FirstCall /\ Reset
    \/ FirstCall /\ Clear
    \/ FirstCall /\ Glider
    \/ FirstCall /\ Pulsar
    \/ FirstCall /\ SetCells
    \/ FirstCall /\ Render

SpecFrame == InitFrame /\ [][NextFrame]_vars

----------------------------------------------------------------------------
(* A grid as set_size returns it, with sides in 0..MaxLifeDim; then clear, *)
(* set_width or set_height, then ticks.                                    *)

InitCleared ==
    \E w \in 0..MaxLifeDim, h \in 0..MaxLifeDim, seed \in Seeds :
        Start(set_size_result(w, h, seed), "start", {FALSE})

NextCleared ==
    \/ FirstCall /\ Clear
    \/ FirstCall /\ SetWidth
    \/ FirstCall /\ SetHeight
    \/ ~FirstCall /\ Tick

SpecCleared == InitCleared /\ [][NextCleared]_vars

----------------------------------------------------------------------------
(* What the claims are stated with. *)

\* Whether every cell of the sequence cs is Dead.
AllDead(cs) == \A i \in 1..Len(cs) : cs[i] = Dead

\* The number of Alive cells of the sequence cs.
AliveCount(cs) == Cardinality({i \in 1..Len(cs) : cs[i] = Alive})

\* Whether (row, col) names no cell of the grid of u.
OutOfRange(u, row, col) == row >= u.height \/ col >= u.width

\* The eight offsets of a neighbour.
Offsets == {d \in {-1, 0, 1} \X {-1, 0, 1} : d # <<0, 0>>}

\* The live neighbours of (row, col) on the torus, by modular arithmetic.
LiveNeighbours(u, row, col) ==
    Cardinality({d \in Offsets :
                    LET p == Torus(u, row, col, d[1], d[2])
                    IN  CellAt(u, p[1], p[2]) = Alive})

\* The rule B3/S23.
B3S23(cell, n) ==
    IF cell = Alive
    THEN (IF n \in {2, 3} THEN Alive ELSE Dead)
    ELSE (IF n = 3 THEN Alive ELSE Dead)

----------------------------------------------------------------------------
(* C1 *)

\* C1: after any sequence of calls from new() that each return, the
\* Universe they were called on holds width * height cells.
\* set_size stores the new width and height and leaves the buffer.
C1_DimensionInvariant == status = "ok" => Len(cells) = width * height

----------------------------------------------------------------------------
(* C2 *)

\* C2: on a grid with width >= 3 and height >= 3, tick returns and every
\* cell (row, col) is then B3/S23 of its state and of its number of live
\* neighbours in the grid as it was before the tick.
C2_TickIsB3S23 ==
    (op.name = "tick" /\ WellFormed(pre) /\ pre.width >= 3 /\ pre.height >= 3)
        => /\ status = "ok"
           /\ Self.width = pre.width /\ Self.height = pre.height
           /\ Len(cells) = Len(pre.cells)
           /\ \A row \in 0..(pre.height - 1), col \in 0..(pre.width - 1) :
                  CellAt(Self, row, col)
                      = B3S23(CellAt(pre, row, col), LiveNeighbours(pre, row, col))

\* A tick of a 3 x 3 grid or larger with a birth and a survival.
C2_Witness ==
    /\ op.name = "tick" /\ status = "ok"
    /\ WellFormed(pre) /\ pre.width >= 3 /\ pre.height >= 3
    /\ \E row \in 0..(pre.height - 1), col \in 0..(pre.width - 1) :
           /\ CellAt(pre, row, col) = Dead
           /\ LiveNeighbours(pre, row, col) = 3
           /\ CellAt(Self, row, col) = Alive
    /\ \E row \in 0..(pre.height - 1), col \in 0..(pre.width - 1) :
           /\ CellAt(pre, row, col) = Alive
           /\ LiveNeighbours(pre, row, col) = 2
           /\ CellAt(Self, row, col) = Alive

----------------------------------------------------------------------------
(* C3 *)

\* C3: toggle_cell(row, col) with row >= height or col >= width, and
\* set_cells of a list holding such a pair, panic and change no cell.
\* The code checks the flattened index against the buffer only.
C3_OutOfRangeIsFatal ==
    /\ (op.name = "toggle_cell" /\ OutOfRange(pre, op.args[1], op.args[2]))
           => (status = "panicked" /\ cells = pre.cells)
    /\ (op.name = "set_cells"
           /\ \E k \in 1..Len(op.args) : OutOfRange(pre, op.args[k][1], op.args[k][2]))
           => (status = "panicked" /\ cells = pre.cells)

----------------------------------------------------------------------------
(* C4 *)

\* The literal pulsar: whether (r, c) is an O of the 13 x 13 diagram.
InPulsar(r, c) ==
    \/ r \in {0, 5, 7, 12} /\ c \in {2, 3, 4, 8, 9, 10}
    \/ r \in {2, 3, 4, 8, 9, 10} /\ c \in {0, 5, 7, 12}

\* C4: on an all-Dead grid with width >= 13 and height >= 13, pulsar(0, 0)
\* returns and leaves exactly 48 cells Alive: (r, c) is Alive if and only
\* if it is an O of the diagram.
C4_PulsarAtOrigin ==
    (/\ op.name = "pulsar" /\ op.args = <<0, 0>>
     /\ WellFormed(pre) /\ AllDead(pre.cells)
     /\ pre.width >= 13 /\ pre.height >= 13)
        => /\ status = "ok"
           /\ width = pre.width /\ height = pre.height
           /\ Len(cells) = Len(pre.cells)
           /\ AliveCount(cells) = 48
           /\ \A r \in 0..(height - 1), c \in 0..(width - 1) :
                  (CellAt(Self, r, c) = Alive) <=> InPulsar(r, c)

\* pulsar(0, 0) has stamped an all-Dead grid wider than the pattern.
C4_Witness ==
    /\ op.name = "pulsar" /\ op.args = <<0, 0>> /\ status = "ok"
    /\ WellFormed(pre) /\ AllDead(pre.cells)
    /\ pre.width > 13 /\ pre.height >= 13
    /\ CellAt(Self, 12, 10) = Alive

----------------------------------------------------------------------------
(* C5 *)

\* The cells of the glider seed, as the claim lists them.
GliderAt == {<<0, 1>>, <<1, 2>>, <<2, 0>>, <<2, 1>>, <<2, 2>>}

\* C5: the "glider" seed on an 8 x 8 grid is Alive exactly at GliderAt,
\* and after exactly 4 ticks the Alive cells are those moved by one row
\* and one column, each modulo 8.
C5_GliderAfterFourTicks ==
    /\ GliderSeed = Grid(8, 8, GliderAt)
    /\ (gen = 4 /\ width = 8 /\ height = 8 /\ gen0 = GliderSeed.cells)
           => /\ status = "ok"
              /\ Self = Grid(8, 8, {<<(p[1] + 1) % 8, (p[2] + 1) % 8>> : p \in GliderAt})

\* Four ticks of the glider seed have run.
C5_Witness ==
    /\ gen = 4 /\ op.name = "tick" /\ status = "ok"
    /\ width = 8 /\ height = 8 /\ gen0 = GliderSeed.cells
    /\ CellAt(Self, 3, 3) = Alive

----------------------------------------------------------------------------
(* C6 *)

\* C6: from any state, set_width(w) leaves height as it was, width = w and
\* w * height cells, all Dead; set_height(h) leaves width as it was,
\* height = h and width * h cells, all Dead.
C6_ResizeClears ==
    /\ op.name = "set_width"
           => /\ status = "ok"
              /\ height = pre.height
              /\ width = op.args[1]
              /\ Len(cells) = op.args[1] * pre.height
              /\ AllDead(cells)
    /\ op.name = "set_height"
           => /\ status = "ok"
              /\ width = pre.width
              /\ height = op.args[1]
              /\ Len(cells) = pre.width * op.args[1]
              /\ AllDead(cells)

\* set_width has changed the width of a Universe that held Alive cells and
\* has left cells.
C6_Witness ==
    /\ op.name = "set_width" /\ status = "ok"
    /\ AliveCount(pre.cells) > 0
    /\ width # pre.width
    /\ Len(cells) # Len(pre.cells)
    /\ Len(cells) > 0

----------------------------------------------------------------------------
(* C7 *)

\* C7: on a grid of at least 5 x 5, a horizontal blinker (anywhere on the
\* torus) is after every odd number of ticks the vertical blinker through
\* the same centre and after every even number the horizontal one again;
\* a tick turns either into the other.
C7_BlinkerAlternates ==
    (width >= 5 /\ height >= 5 /\ WellFormed(Self)) =>
        \A row \in 0..(height - 1), col \in 0..(width - 1) :
            LET hor == HBlinker(width, height, row, col).cells
                ver == VBlinker(width, height, row, col).cells
            IN  /\ gen0 = hor
                       => /\ status = "ok"
                          /\ cells = IF gen % 2 = 1 THEN ver ELSE hor
                /\ (op.name = "tick" /\ pre.cells = hor) => cells = ver
                /\ (op.name = "tick" /\ pre.cells = ver) => cells = hor

\* Two ticks of a horizontal blinker that straddles the left edge of a
\* 5 x 5 grid: vertical after the first, horizontal again after the second.
C7_Witness ==
    /\ width = 5 /\ height = 5 /\ gen = 2 /\ op.name = "tick" /\ status = "ok"
    /\ gen0 = HBlinker(5, 5, 2, 0).cells
    /\ pre.cells = VBlinker(5, 5, 2, 0).cells
    /\ cells = gen0

----------------------------------------------------------------------------
(* C8 *)

\* C8: on a grid of at least 4 x 4 whose only Alive cells are a 2 x 2
\* block, anywhere on the torus, every tick leaves the grid as it is.
C8_BlockIsStill ==
    (width >= 4 /\ height >= 4 /\ WellFormed(Self)) =>
        \A row \in 0..(height - 1), col \in 0..(width - 1) :
            LET block == Block(width, height, row, col).cells
            IN  /\ gen0 = block => (status = "ok" /\ cells = block)
                /\ (op.name = "tick" /\ pre.cells = block) => cells = block

\* Ticks of a block that straddles the corner of a 4 x 4 grid.
C8_Witness ==
    /\ width = 4 /\ height = 4 /\ gen = MaxGen /\ op.name = "tick" /\ status = "ok"
    /\ gen0 = Block(4, 4, 3, 3).cells
    /\ cells = gen0
    /\ AliveCount(cells) = 4

----------------------------------------------------------------------------
(* C9 *)

\* C9: from any state, clear() leaves every cell Dead and width, height and
\* the number of cells as they were.
\* After set_size the buffer does not hold width * height cells, and clear
\* allocates width * height of them.
C9_ClearKeepsSize ==
    op.name = "clear"
        => /\ status = "ok"
           /\ AllDead(cells)
           /\ width = pre.width
           /\ height = pre.height
           /\ Len(cells) = Len(pre.cells)

----------------------------------------------------------------------------
(* C10 *)

\* C10: on a grid, toggle_cell(row, col) with row < height and col < width
\* returns; it flips the cell at flattened index row * width + col and
\* leaves every other cell, width and height as they were; a second
\* toggle_cell(row, col) gives the first grid back.
C10_ToggleFlipsOneCell ==
    (op.name = "toggle_cell" /\ ~OutOfRange(pre, op.args[1], op.args[2])) =>
        LET row == op.args[1]
            col == op.args[2]
            again == toggle_cell(Self, row, col)
        IN  /\ WellFormed(pre) => status = "ok"
            /\ status = "ok"
                   => /\ width = pre.width /\ height = pre.height
                      /\ Len(cells) = Len(pre.cells)
                      /\ \A i \in 1..Len(cells) :
                             cells[i] = IF i = row * pre.width + col + 1
                                        THEN 1 - pre.cells[i]
                                        ELSE pre.cells[i]
                      /\ cells # pre.cells
                      /\ again.ok
                      /\ Universe(again.width, again.height, again.cells) = pre

\* toggle_cell has flipped a cell of the second row of a grid that is not
\* square.
C10_Witness ==
    /\ op.name = "toggle_cell" /\ status = "ok"
    /\ WellFormed(pre) /\ pre.width # pre.height
    /\ op.args[1] = 1 /\ op.args[1] < pre.height /\ op.args[2] < pre.width
    /\ cells # pre.cells

----------------------------------------------------------------------------
(* C11 *)

\* C11: set_size(w, h) returns a Universe of width w, height h and w * h
\* cells; in the receiver it stores w and h as width and height and
\* leaves the cell buffer as it was.
C11_SetSizeReturnsNewGrid ==
    op.name = "set_size" =>
        /\ status = "ok"
        /\ Len(ret) = 1
        /\ ret[1].width = op.args[1]
        /\ ret[1].height = op.args[2]
        /\ Len(ret[1].cells) = op.args[1] * op.args[2]
        /\ \A i \in 1..Len(ret[1].cells) : ret[1].cells[i] \in Cell
        /\ width = op.args[1]
        /\ height = op.args[2]
        /\ cells = pre.cells

\* set_size has returned a grid of another size than the receiver's, which
\* keeps its cells, some of them Alive.
C11_Witness ==
    /\ op.name = "set_size" /\ status = "ok"
    /\ WellFormed(pre) /\ AliveCount(pre.cells) > 0
    /\ width # pre.width
    /\ Len(ret[1].cells) # Len(cells)
    /\ Len(ret[1].cells) > 0
    /\ cells = pre.cells

----------------------------------------------------------------------------
(* C12 *)

\* C12: from any state, render() returns height lines of width symbols and
\* a newline each, and the symbol at position c of line r is that of the
\* cell at flattened index r * width + c; also where width or height is 0.
\* With width = 0 the chunks of fmt have size 0 and render panics; after
\* set_size the lines follow the buffer, not height.
C12_RenderIsGrid ==
    op.name = "render" =>
        /\ status = "ok"
        /\ Len(ret) = 1
        /\ Len(ret[1]) = height * (width + 1)
        /\ Len(cells) = height * width
        /\ \A r \in 0..(height - 1) :
               /\ \A c \in 0..(width - 1) :
                      ret[1][r * (width + 1) + c + 1]
                          = IF cells[r * width + c + 1] = Alive
                            THEN AliveGlyph ELSE DeadGlyph
               /\ ret[1][r * (width + 1) + width + 1] = Newline

----------------------------------------------------------------------------
(* C13 *)

\* The sum of the cell values at the eight offsets from (row, col), rows
\* modulo height and columns modulo width.
NeighbourSum(u, row, col) ==
    LET at(dr, dc) == u.cells[((row + dr + u.height) % u.height) * u.width
                              + ((col + dc + u.width) % u.width) + 1]
    IN  at(-1, -1) + at(-1, 0) + at(-1, 1) + at(0, -1) + at(0, 1)
            + at(1, -1) + at(1, 0) + at(1, 1)

\* C13: on a grid with width >= 1 and height >= 1, live_neighbor_count of
\* every (row, col) of the grid is in 0..8 and is the sum of the cell
\* values at the eight offsets on the torus; on a square grid (0, 0)
\* counts the cell of the opposite corner.
C13_NeighbourCountWraps ==
    (op.name = "tick" /\ WellFormed(pre) /\ pre.width >= 1 /\ pre.height >= 1) =>
        /\ \A row \in 0..(pre.height - 1), col \in 0..(pre.width - 1) :
               LET n == live_neighbor_count(pre, row, col)
               IN  /\ n.ok
                   /\ n.count \in 0..8
                   /\ n.count = NeighbourSum(pre, row, col)
        /\ (pre.width = pre.height
                /\ CellAt(pre, pre.height - 1, pre.width - 1) = Alive)
               => live_neighbor_count(pre, 0, 0).count >= 1

\* tick has counted the neighbours of a 3 x 3 grid whose one Alive cell is
\* (2, 2): (0, 0) has one live neighbour, and (1, 1) too.
C13_Witness ==
    /\ op.name = "tick" /\ status = "ok"
    /\ pre = Grid(3, 3, {<<2, 2>>})
    /\ live_neighbor_count(pre, 0, 0).count = 1
    /\ live_neighbor_count(pre, 1, 1).count = 1
    /\ AllDead(cells)

----------------------------------------------------------------------------
(* C14 *)

\* The flattened indices glider(row, col) is claimed to set on u.
GliderIndices(u, row, col) ==
    LET L == u.width * u.height
    IN  {(1 + col + u.width * row) % L, (2 + col + u.width * (row + 1)) % L}
            \cup {(i + col + u.width * (row + 2)) % L : i \in {0, 1, 2}}

\* C14: on a grid with L = width * height >= 1, glider(row, col) returns;
\* the cells at the flattened indices (1 + col + width * row) mod L,
\* (2 + col + width * (row + 1)) mod L and (i + col + width * (row + 2))
\* mod L for i in 0..2 are then Alive, and every other cell, width and
\* height are as they were.
C14_GliderWrapsFlattened ==
    (op.name = "glider" /\ WellFormed(pre) /\ pre.width * pre.height >= 1) =>
        /\ status = "ok"
        /\ width = pre.width /\ height = pre.height
        /\ Len(cells) = Len(pre.cells)
        /\ \A i \in 0..(Len(cells) - 1) :
               cells[i + 1] = IF i \in GliderIndices(pre, op.args[1], op.args[2])
                              THEN Alive
                              ELSE pre.cells[i + 1]

\* glider(0, width - 1) on an all-Dead grid of two columns or more and two
\* rows or more: its first cell is (1, 0), the start of the next row, and
\* (0, 0), which it does not name, stays Dead.
C14_Witness ==
    /\ op.name = "glider" /\ status = "ok"
    /\ WellFormed(pre) /\ AllDead(pre.cells)
    /\ pre.width >= 2 /\ pre.height >= 2
    /\ op.args = <<0, pre.width - 1>>
    /\ 0 \notin GliderIndices(pre, 0, pre.width - 1)
    /\ CellAt(Self, 1, 0) = Alive
    /\ CellAt(Self, 0, 0) = Dead

----------------------------------------------------------------------------
(* C15 *)

\* C15: after set_width(0) or set_height(0), or clear of a grid without
\* rows or columns, tick returns and leaves width, height and the empty
\* cell buffer as they were: its loops run no step, so no wrap index is
\* computed.
C15_TickOfEmptyGrid ==
    (op.name = "tick" /\ (pre.width = 0 \/ pre.height = 0)) =>
        /\ status = "ok"
        /\ width = pre.width
        /\ height = pre.height
        /\ pre.cells = << >>
        /\ cells = << >>

\* Two ticks or more of a grid that has rows and no columns, or columns
\* and no rows.
C15_Witness ==
    /\ op.name = "tick" /\ status = "ok" /\ gen >= 2
    /\ \/ width = 0 /\ height >= 1
       \/ width >= 1 /\ height = 0
    /\ cells = << >>

----------------------------------------------------------------------------
(* C18 *)

\* C18: on a grid with width >= 1 and height >= 1 that clear, set_width or
\* set_height left all Dead, every tick returns and every cell is Dead
\* after any number of ticks.
C18_AllDeadIsFixed ==
    (width >= 1 /\ height >= 1 /\ AllDead(gen0)) =>
        /\ status = "ok"
        /\ Len(cells) = width * height
        /\ AllDead(cells)
        /\ op.name = "tick" => (AllDead(pre.cells) /\ cells = pre.cells)

\* MaxGen ticks after clear, set_width or set_height left a grid of three
\* rows or more and two columns or more.
C18_Witness ==
    /\ op.name = "tick" /\ status = "ok" /\ gen = MaxGen
    /\ width >= 2 /\ height >= 3
    /\ Len(cells) = width * height
    /\ AllDead(gen0) /\ AllDead(cells)

----------------------------------------------------------------------------
(* C16 *)

\* C16: tick, toggle_cell, reset, clear, glider, pulsar and set_cells
\* leave width and height as they were, whether they return or panic; a
\* call that changes width or height is set_width, set_height or set_size.
C16_OnlySizingChangesDimensions ==
    /\ op.name \in {"tick", "toggle_cell", "reset", "clear", "glider", "pulsar", "set_cells"}
           => (width = pre.width /\ height = pre.height)
    /\ (width # pre.width \/ height # pre.height)
           => op.name \in {"set_width", "set_height", "set_size"}

\* pulsar has changed cells of a grid that is not square and has left its
\* width and height.
C16_Witness ==
    /\ op.name = "pulsar" /\ status = "ok"
    /\ WellFormed(pre) /\ pre.width # pre.height
    /\ cells # pre.cells
    /\ width = pre.width /\ height = pre.height

----------------------------------------------------------------------------
(* C17 *)

\* The last call, made once more on u.
SameCall(u) ==
    CASE op.name = "glider"    -> glider(u, op.args[1], op.args[2])
      [] op.name = "pulsar"    -> pulsar(u, op.args[1], op.args[2], checked)
      [] op.name = "set_cells" -> set_cells(u, op.args)

\* C17: when glider, pulsar or set_cells returns, every cell that was Alive
\* is Alive, no cell was added or removed, and the same call made once
\* more returns and leaves the grid as the first call left it.
C17_StampsOnlySetAlive ==
    (op.name \in {"glider", "pulsar", "set_cells"} /\ status = "ok") =>
        /\ Len(cells) = Len(pre.cells)
        /\ \A i \in 1..Len(cells) : pre.cells[i] = Alive => cells[i] = Alive
        /\ SameCall(Self) = Outcome(Self, TRUE)

\* set_cells of two pairs has set a Dead cell Alive on a grid that held an
\* Alive cell, and named an Alive cell too.
C17_Witness ==
    /\ op.name = "set_cells" /\ status = "ok" /\ Len(op.args) = 2
    /\ WellFormed(pre)
    /\ AliveCount(pre.cells) > 0
    /\ AliveCount(cells) > AliveCount(pre.cells)
    /\ \E k \in 1..2 :
           /\ ~OutOfRange(pre, op.args[k][1], op.args[k][2])
           /\ CellAt(pre, op.args[k][1], op.args[k][2]) = Alive

====
